---- MODULE Spec2Model ----
(***************************************************************************)
(* Model of package queue (Queue[T], its waiters and items helpers, and    *)
(* ExecuteInParallel), of package set (Set[T]) and of package futures      *)
(* (Selectable[T]); each has its own specification and leaves the state of *)
(* the others alone.  Every goroutine calling into one shared queue is a   *)
(* process; a call runs as the sequence of steps between the points where  *)
(* it can be interleaved with other goroutines: taking q.lock, a send or   *)
(* receive on sema.ready, and Add/Wait/Done on sema.response.              *)
(*                                                                         *)
(* Items are opaque to the queue (T any), so every inserted item carries   *)
(* the stamp of its insertion: the k-th item ever appended is k.  0 is the *)
(* value ExecuteInParallel writes over an item it has processed.           *)
(***************************************************************************)
EXTENDS Integers, Sequences, FiniteSets, TLC

\* Bounds of the model: the goroutines that call into the queue, the items
\* inserted in all, the items of one Put, the number asked of one Poll, the
\* semas created in all, the goroutines ExecuteInParallel starts (numCPU),
\* and the calls made in all.
NumProcs == 3
MaxItems == 3
MaxPut == 2
MaxN == 2
MaxSemas == 3
MaxWorkers == 2
MaxCalls == 3
\* The members a Set can hold, the items handed to one Add, Remove or New,
\* the goroutines that call into one Selectable, the values they fill, and
\* the calls they make in all.
MaxElem == 3
MaxArgs == 2
NumCallers == 3
MaxVal == 1
MaxFutCalls == 3

Procs == 1..NumProcs
Semas == 1..MaxSemas
Workers == 1..MaxWorkers
ItemVals == 0..MaxItems

\* The predicates handed to TakeUntil, each the set of items it accepts:
\* everything, nothing, and everything but one item (which stops the scan
\* in front of items that pass again).
Checkers == {ItemVals, {}} \cup {ItemVals \ {c} : c \in 1..MaxItems}

ErrNone == "nil"
ErrDisposed == "ErrDisposed"
ErrTimeout == "ErrTimeout"
ErrEmptyQueue == "ErrEmptyQueue"
ErrFutureCanceled == "future canceled"

Elems == 1..MaxElem
ArgLists == UNION {[1..n -> Elems] : n \in 0..MaxArgs}
Callers == 1..NumCallers
Vals == 0..MaxVal
\* The errors handed to Fill and SetError: none, or some error.
Errs == {ErrNone, "error"}

VARIABLES
  items,      \* q.items
  waiters,    \* q.waiters: sema ids, oldest first
  disposed,   \* q.disposed
  lock,       \* q.lock: 0 when free, else the process that locked it
  ready,      \* sema.ready: number of values in the capacity-1 channel
  response,   \* sema.response: the WaitGroup counter
  nsema,      \* semas created so far
  nitems,     \* items appended so far
  ncalls,     \* calls made so far
  pc,         \* where each process is
  op,         \* the call a process is in, or the last one it made
  num,        \* Put: len(items); Poll: number
  tmo,        \* Poll: timeout > 0
  chk,        \* TakeUntil: checker
  sema,       \* Poll: the sema it created; Put, Dispose: the one at hand
  di,         \* Dispose: position in the range over q.waiters
  res,        \* the items a call returned
  err,        \* the error a call returned
  woken,      \* Poll: took the items in the <-sema.ready branch
  todo,       \* ExecuteInParallel: todo
  done,       \* ExecuteInParallel: done
  wg,         \* ExecuteInParallel: wg
  wpc,        \* ExecuteInParallel: where each worker goroutine is
  widx,       \* ExecuteInParallel: index claimed by each worker
  applied,    \* how many times fn was called on each index of the snapshot
  adds,       \* history: the response.Add(1) calls on each sema
  dones,      \* history: the response.Done() calls on each sema
  claim,      \* history: who got a value into each sema's ready, in order
  given,      \* history: in how many results each item has been returned
  setItems,   \* Set: set.items, the keys of the map
  flattened,  \* Set: set.flattened
  setOp,      \* Set: the last call made
  setRet,     \* Set: what the last Flatten returned
  val,        \* Selectable: f.val
  futErr,     \* Selectable: f.err
  wait,       \* Selectable: f.wait
  filled,     \* Selectable: f.filled
  chanClosed, \* Selectable: the channel wchan made has been closed
  first,      \* history: the (v, e) of the first Fill to take f.m
  fpc,        \* Selectable: where each caller is
  fop,        \* Selectable: the call a caller is in, or the last it made
  farg,       \* Selectable: Fill's v and e
  fch,        \* Selectable: the channel wchan returned to the caller
  fret,       \* Selectable: what the call returned
  fcalls      \* Selectable: calls made so far

qvars == <<items, waiters, disposed, lock>>
svars == <<ready, response, nsema>>
pvars == <<pc, op, num, tmo, chk, sema, di, res, err, woken>>
cvars == <<nitems, ncalls>>
evars == <<todo, done, wg, wpc, widx, applied>>
hvars == <<adds, dones, claim, given>>
setvars == <<setItems, flattened, setOp, setRet>>
futvars == <<val, futErr, wait, filled, chanClosed, first,
             fpc, fop, farg, fch, fret, fcalls>>
\* The state of the packages other than queue.
ovars == <<setvars, futvars>>
\* The state of package queue.
queuevars == <<qvars, svars, pvars, cvars, evars, hvars>>
vars == <<items, waiters, disposed, lock, ready, response, nsema, nitems,
          ncalls,
          pc, op, num, tmo, chk, sema, di, res, err, woken,
          todo, done, wg, wpc, widx, applied,
          adds, dones, claim, given,
          setItems, flattened, setOp, setRet,
          val, futErr, wait, filled, chanClosed, first,
          fpc, fop, farg, fch, fret, fcalls>>

----------------------------------------------------------------------------
\* type waiters []*sema

\* waiters.get taking the newest token.
waitersGetLast(w) ==
  IF Len(w) = 0 THEN [sema |-> 0, rest |-> w]
  ELSE [sema |-> w[Len(w)], rest |-> SubSeq(w, 1, Len(w) - 1)]

waitersGet(w) ==
  IF Len(w) = 0 THEN [sema |-> 0, rest |-> w]
  ELSE [sema |-> w[1], rest |-> SubSeq(w, 2, Len(w))]

waitersPut(w, s) == Append(w, s)

RECURSIVE waitersRemoveLoop(_, _, _, _)
waitersRemoveLoop(ws, s, i, newWs) ==
  IF i > Len(ws) THEN newWs
  ELSE waitersRemoveLoop(ws, s, i + 1,
         IF ws[i] # s THEN Append(newWs, ws[i]) ELSE newWs)

\* waiters.remove dropping the slice it built.
waitersRemoveNone(w, s) ==
  IF Len(w) = 0 THEN w
  ELSE LET newWs == waitersRemoveLoop(w, s, 1, <<>>) IN w

waitersRemove(w, s) ==
  IF Len(w) = 0 THEN w ELSE waitersRemoveLoop(w, s, 1, <<>>)

----------------------------------------------------------------------------
\* type items[T any] []T

RECURSIVE itemsGetLoop(_, _, _, _)
itemsGetLoop(its, number, i, returnItems) ==
  IF i < number /\ i < Len(its)
  THEN itemsGetLoop(its, number, i + 1, Append(returnItems, its[i + 1]))
  ELSE [returnItems |-> returnItems, index |-> i]

\* items.get returning the items and leaving them in the buffer.
itemsGetCopy(its, number) ==
  LET r == itemsGetLoop(its, number, 0, <<>>)
  IN [returnItems |-> r.returnItems, rest |-> its]

\* items.get leaving the buffer one item short of what it returned.
itemsGetShort(its, number) ==
  LET r == itemsGetLoop(its, number, 0, <<>>)
  IN [returnItems |-> r.returnItems,
      rest |-> SubSeq(its, r.index + 2, Len(its))]

itemsGet(its, number) ==
  LET r == itemsGetLoop(its, number, 0, <<>>)
  IN [returnItems |-> r.returnItems,
      rest |-> SubSeq(its, r.index + 1, Len(its))]

\* items.peek returning the newest item.
itemsPeekLast(its) ==
  IF Len(its) = 0 THEN [item |-> 0, ok |-> FALSE]
  ELSE [item |-> its[Len(its)], ok |-> TRUE]

itemsPeek(its) ==
  IF Len(its) = 0 THEN [item |-> 0, ok |-> FALSE]
  ELSE [item |-> its[1], ok |-> TRUE]

RECURSIVE itemsGetUntilLoop(_, _, _, _)
itemsGetUntilLoop(its, checker, i, returnItems) ==
  IF i > Len(its) \/ its[i] \notin checker
  THEN [returnItems |-> returnItems, index |-> i - 2]
  ELSE itemsGetUntilLoop(its, checker, i + 1, Append(returnItems, its[i]))

\* items.getUntil cutting the buffer at index instead of index + 1.
itemsGetUntilKeep(its, checker) ==
  IF Len(its) = 0 THEN [returnItems |-> <<>>, rest |-> its]
  ELSE LET r == itemsGetUntilLoop(its, checker, 1, <<>>)
       IN [returnItems |-> r.returnItems,
           rest |-> SubSeq(its, IF r.index + 1 < 1 THEN 1 ELSE r.index + 1,
                           Len(its))]

itemsGetUntil(its, checker) ==
  IF Len(its) = 0 THEN [returnItems |-> <<>>, rest |-> its]
  ELSE LET r == itemsGetUntilLoop(its, checker, 1, <<>>)
       IN [returnItems |-> r.returnItems,
           rest |-> SubSeq(its, r.index + 2, Len(its))]

----------------------------------------------------------------------------
\* package set: set.items[item] = struct{}{} for each item of the list
RECURSIVE setInsert(_, _, _)
setInsert(m, its, i) ==
  IF i > Len(its) THEN m ELSE setInsert(m \cup {its[i]}, its, i + 1)

\* func New[T comparable](items ...T) *Set[T]
SetNew(its) ==
  /\ setItems = setInsert({}, its, 1)
  /\ flattened = [nil |-> TRUE, list |-> <<>>]
  /\ setOp = "New"
  /\ setRet = <<>>

\* package futures: func NewSelectable[T any]() *Selectable[T]
NewSelectable ==
  /\ val = 0
  /\ futErr = ErrNone
  /\ wait = "nil"
  /\ filled = 0
  /\ chanClosed = FALSE
  /\ first = [set |-> FALSE, v |-> 0, e |-> ErrNone]
  /\ fpc = [c \in Callers |-> "idle"]
  /\ fop = [c \in Callers |-> "none"]
  /\ farg = [c \in Callers |-> [v |-> 0, e |-> ErrNone, late |-> FALSE]]
  /\ fch = [c \in Callers |-> "nil"]
  /\ fret = [c \in Callers |-> [v |-> 0, e |-> ErrNone]]
  /\ fcalls = 0

\* package queue: func New[T any](hint int64) *Queue[T]
QueueNew ==
  /\ items = <<>>
  /\ waiters = <<>>
  /\ disposed = FALSE
  /\ lock = 0
  /\ ready = [s \in Semas |-> 0]
  /\ response = [s \in Semas |-> 0]
  /\ nsema = 0
  /\ nitems = 0
  /\ ncalls = 0
  /\ pc = [p \in Procs |-> "idle"]
  /\ op = [p \in Procs |-> "none"]
  /\ num = [p \in Procs |-> 0]
  /\ tmo = [p \in Procs |-> FALSE]
  /\ chk = [p \in Procs |-> {}]
  /\ sema = [p \in Procs |-> 0]
  /\ di = [p \in Procs |-> 0]
  /\ res = [p \in Procs |-> <<>>]
  /\ err = [p \in Procs |-> ErrNone]
  /\ woken = [p \in Procs |-> FALSE]
  /\ todo = 0
  /\ done = -1
  /\ wg = 0
  /\ wpc = [w \in Workers |-> "off"]
  /\ widx = [w \in Workers |-> 0]
  /\ applied = <<>>
  /\ adds = [s \in Semas |-> 0]
  /\ dones = [s \in Semas |-> 0]
  /\ claim = [s \in Semas |-> <<>>]
  /\ given = [i \in 1..MaxItems |-> 0]

\* One queue, with an empty set and a future nobody uses next to it.
Init == QueueNew /\ SetNew(<<>>) /\ NewSelectable

\* A process enters a call: the previous call's results are dropped.
\* Goroutines are interchangeable, so they are numbered in the order of
\* their first calls.
Enter(p, name, at) ==
  /\ pc[p] = "idle"
  /\ IF p = 1 THEN TRUE ELSE op[p - 1] # "none"
  /\ ncalls < MaxCalls
  /\ ncalls' = ncalls + 1
  /\ pc' = [pc EXCEPT ![p] = at]
  /\ op' = [op EXCEPT ![p] = name]
  /\ res' = [res EXCEPT ![p] = <<>>]
  /\ err' = [err EXCEPT ![p] = ErrNone]
  /\ woken' = [woken EXCEPT ![p] = FALSE]
  /\ sema' = [sema EXCEPT ![p] = 0]
  /\ di' = [di EXCEPT ![p] = 0]

\* A process returns from its call.
Return(p, r, e) ==
  /\ pc' = [pc EXCEPT ![p] = "idle"]
  /\ res' = [res EXCEPT ![p] = r]
  /\ err' = [err EXCEPT ![p] = e]

\* History: the items of its have been returned in one more result.
Give(its) ==
  [i \in 1..MaxItems |->
     given[i] + Cardinality({k \in 1..Len(its) : its[k] = i})]

\* The items of Put calls that have not appended yet.
RECURSIVE PendingPut(_)
PendingPut(S) ==
  IF S = {} THEN 0
  ELSE LET p == CHOOSE x \in S : TRUE
       IN (IF pc[p] = "put_lock" THEN num[p] ELSE 0) + PendingPut(S \ {p})

----------------------------------------------------------------------------
\* func (q *Queue[T]) Put(items ...T) error

PutCall(p) ==
  \E n \in 0..MaxPut :
    /\ nitems + PendingPut(Procs) + n <= MaxItems
    /\ IF n = 0
       THEN /\ Enter(p, "Put", "idle")
            /\ UNCHANGED <<tmo, chk>>
       ELSE /\ Enter(p, "Put", "put_lock")
            /\ UNCHANGED <<tmo, chk>>
    /\ num' = [num EXCEPT ![p] = n]
    /\ UNCHANGED <<qvars, svars, nitems, evars>>
  /\ UNCHANGED <<hvars, ovars>>

\* Put returning after the append, without its loop over the waiters.
PutLockNoHandOff(p) ==
  /\ pc[p] = "put_lock"
  /\ lock = 0
  /\ IF disposed
     THEN /\ Return(p, <<>>, ErrDisposed)
          /\ UNCHANGED <<qvars, nitems>>
     ELSE /\ items' = items \o [i \in 1..num[p] |-> nitems + i]
          /\ nitems' = nitems + num[p]
          /\ Return(p, <<>>, ErrNone)
          /\ UNCHANGED <<waiters, disposed, lock>>
  /\ UNCHANGED <<svars, ncalls, op, num, tmo, chk, sema, di, woken, evars>>
  /\ UNCHANGED <<hvars, ovars>>

\* Put without its disposed check.
PutLockNoCheck(p) ==
  /\ pc[p] = "put_lock"
  /\ lock = 0
  /\ items' = items \o [i \in 1..num[p] |-> nitems + i]
  /\ nitems' = nitems + num[p]
  /\ lock' = p
  /\ pc' = [pc EXCEPT ![p] = "put_get"]
  /\ UNCHANGED <<waiters, disposed, res, err>>
  /\ UNCHANGED <<svars, ncalls, op, num, tmo, chk, sema, di, woken, evars>>
  /\ UNCHANGED <<hvars, ovars>>

\* q.lock.Lock(); the disposed check; q.items = append(q.items, items...)
PutLock(p) ==
  /\ pc[p] = "put_lock"
  /\ lock = 0
  /\ IF disposed
     THEN /\ Return(p, <<>>, ErrDisposed)
          /\ UNCHANGED <<qvars, nitems>>
     ELSE /\ items' = items \o [i \in 1..num[p] |-> nitems + i]
          /\ nitems' = nitems + num[p]
          /\ lock' = p
          /\ pc' = [pc EXCEPT ![p] = "put_get"]
          /\ UNCHANGED <<waiters, disposed, res, err>>
  /\ UNCHANGED <<svars, ncalls, op, num, tmo, chk, sema, di, woken, evars>>
  /\ UNCHANGED <<hvars, ovars>>

\* The end of a round without the break on an empty q.items.
PutRoundEndNoBreak(p) ==
  /\ pc' = [pc EXCEPT ![p] = "put_get"]
  /\ UNCHANGED <<lock, res, err>>

\* The end of one round of Put's loop: break on an empty q.items, then
\* q.lock.Unlock() and return, else the next round.
PutRoundEnd(p) ==
  IF Len(items) = 0
  THEN /\ lock' = 0
       /\ Return(p, <<>>, ErrNone)
  ELSE /\ pc' = [pc EXCEPT ![p] = "put_get"]
       /\ UNCHANGED <<lock, res, err>>

\* sema := q.waiters.get(); break on nil; sema.response.Add(1)
PutGet(p) ==
  /\ pc[p] = "put_get"
  /\ LET g == waitersGet(waiters)
     IN IF g.sema = 0
        THEN /\ lock' = 0
             /\ Return(p, <<>>, ErrNone)
             /\ UNCHANGED <<waiters, response, sema, adds>>
        ELSE /\ waiters' = g.rest
             /\ sema' = [sema EXCEPT ![p] = g.sema]
             /\ response' = [response EXCEPT ![g.sema] = @ + 1]
             /\ adds' = [adds EXCEPT ![g.sema] = @ + 1]
             /\ pc' = [pc EXCEPT ![p] = "put_send"]
             /\ UNCHANGED <<lock, res, err>>
  /\ UNCHANGED <<items, disposed, ready, nsema, nitems, ncalls,
                 op, num, tmo, chk, di, woken, evars>>
  /\ UNCHANGED <<dones, claim, given, ovars>>

\* Put taking the default case of its select although the channel is empty.
PutSendNever(p) ==
  /\ pc[p] = "put_send"
  /\ PutRoundEnd(p)
  /\ UNCHANGED ready
  /\ UNCHANGED <<items, waiters, disposed, response, nsema, nitems, ncalls,
                 op, num, tmo, chk, sema, di, woken, evars>>
  /\ UNCHANGED <<hvars, ovars>>

\* select { case sema.ready <- true: ... default: }
PutSend(p) ==
  /\ pc[p] = "put_send"
  /\ IF ready[sema[p]] = 0
     THEN /\ ready' = [ready EXCEPT ![sema[p]] = 1]
          /\ claim' = [claim EXCEPT ![sema[p]] = Append(@, "Put")]
          /\ pc' = [pc EXCEPT ![p] = "put_wait"]
          /\ UNCHANGED <<lock, res, err>>
     ELSE /\ PutRoundEnd(p)
          /\ UNCHANGED <<ready, claim>>
  /\ UNCHANGED <<items, waiters, disposed, response, nsema, nitems, ncalls,
                 op, num, tmo, chk, sema, di, woken, evars>>
  /\ UNCHANGED <<adds, dones, given, ovars>>

\* Put going on without waiting for the ack.
PutWaitNoAck(p) ==
  /\ pc[p] = "put_wait"
  /\ PutRoundEnd(p)
  /\ UNCHANGED <<items, waiters, disposed, svars, nitems, ncalls,
                 op, num, tmo, chk, sema, di, woken, evars>>
  /\ UNCHANGED <<hvars, ovars>>

\* sema.response.Wait()
PutWait(p) ==
  /\ pc[p] = "put_wait"
  /\ response[sema[p]] = 0
  /\ PutRoundEnd(p)
  /\ UNCHANGED <<items, waiters, disposed, svars, nitems, ncalls,
                 op, num, tmo, chk, sema, di, woken, evars>>
  /\ UNCHANGED <<hvars, ovars>>

----------------------------------------------------------------------------
\* func (q *Queue[T]) Poll(number int64, timeout time.Duration) ([]T, error)
\* Get(number) is Poll(number, 0).

PollCall(p) ==
  \E n \in 0..MaxN, t \in BOOLEAN :
    /\ IF n < 1
       THEN Enter(p, "Poll", "idle")
       ELSE /\ nsema + Cardinality({x \in Procs : pc[x] = "poll_lock"}) < MaxSemas
            /\ Enter(p, "Poll", "poll_lock")
    /\ num' = [num EXCEPT ![p] = n]
    /\ tmo' = [tmo EXCEPT ![p] = n >= 1 /\ t]
    /\ UNCHANGED <<qvars, svars, nitems, chk, evars>>
  /\ UNCHANGED <<hvars, ovars>>

\* q.lock.Lock(); the disposed check; on an empty q.items register a sema
\* and unlock, else take the items and unlock.
PollLock(p) ==
  /\ pc[p] = "poll_lock"
  /\ lock = 0
  /\ IF disposed
     THEN /\ Return(p, <<>>, ErrDisposed)
          /\ UNCHANGED <<items, waiters, nsema, sema, given>>
     ELSE IF Len(items) = 0
     THEN /\ nsema' = nsema + 1
          /\ sema' = [sema EXCEPT ![p] = nsema + 1]
          /\ waiters' = waitersPut(waiters, nsema + 1)
          /\ pc' = [pc EXCEPT ![p] = "poll_select"]
          /\ UNCHANGED <<items, res, err, given>>
     ELSE /\ LET g == itemsGet(items, num[p])
             IN /\ items' = g.rest
                /\ given' = Give(g.returnItems)
                /\ Return(p, g.returnItems, ErrNone)
          /\ UNCHANGED <<waiters, nsema, sema>>
  /\ UNCHANGED <<disposed, lock, ready, response, nitems, ncalls,
                 op, num, tmo, chk, di, woken, evars>>
  /\ UNCHANGED <<adds, dones, claim, ovars>>

\* select: case <-sema.ready
PollReady(p) ==
  /\ pc[p] = "poll_select"
  /\ ready[sema[p]] = 1
  /\ ready' = [ready EXCEPT ![sema[p]] = 0]
  /\ pc' = [pc EXCEPT ![p] = "poll_signal"]
  /\ UNCHANGED <<qvars, response, nsema, nitems, ncalls,
                 op, num, tmo, chk, sema, di, res, err, woken, evars>>
  /\ UNCHANGED <<hvars, ovars>>

\* select: case <-timeoutC (timeoutC is nil, and never ready, without a
\* timeout)
PollTimer(p) ==
  /\ pc[p] = "poll_select"
  /\ tmo[p]
  /\ pc' = [pc EXCEPT ![p] = "poll_timeout"]
  /\ UNCHANGED <<qvars, svars, nitems, ncalls,
                 op, num, tmo, chk, sema, di, res, err, woken, evars>>
  /\ UNCHANGED <<hvars, ovars>>

\* The <-sema.ready branch: the disposed check and q.items.get(number)
PollSignal(p) ==
  /\ pc[p] = "poll_signal"
  /\ IF disposed
     THEN /\ Return(p, <<>>, ErrDisposed)
          /\ UNCHANGED <<items, woken, given>>
     ELSE /\ LET g == itemsGet(items, num[p])
             IN /\ items' = g.rest
                /\ given' = Give(g.returnItems)
                /\ res' = [res EXCEPT ![p] = g.returnItems]
          /\ woken' = [woken EXCEPT ![p] = TRUE]
          /\ pc' = [pc EXCEPT ![p] = "poll_done"]
          /\ UNCHANGED err
  /\ UNCHANGED <<waiters, disposed, lock, svars, nitems, ncalls,
                 op, num, tmo, chk, sema, di, evars>>
  /\ UNCHANGED <<adds, dones, claim, ovars>>

\* The <-sema.ready branch: sema.response.Done(); return items, nil
PollDone(p) ==
  /\ pc[p] = "poll_done"
  /\ response' = [response EXCEPT ![sema[p]] = @ - 1]
  /\ dones' = [dones EXCEPT ![sema[p]] = @ + 1]
  /\ Return(p, res[p], ErrNone)
  /\ UNCHANGED <<qvars, ready, nsema, nitems, ncalls,
                 op, num, tmo, chk, sema, di, woken, evars>>
  /\ UNCHANGED <<adds, claim, given, ovars>>

\* The <-timeoutC branch calling Done() in both cases of its select.
PollTimeoutAlwaysDone(p) ==
  /\ pc[p] = "poll_timeout"
  /\ response' = [response EXCEPT ![sema[p]] = @ - 1]
  /\ dones' = [dones EXCEPT ![sema[p]] = @ + 1]
  /\ IF ready[sema[p]] = 0
     THEN /\ ready' = [ready EXCEPT ![sema[p]] = 1]
          /\ claim' = [claim EXCEPT ![sema[p]] = Append(@, "Poll")]
          /\ pc' = [pc EXCEPT ![p] = "poll_remove"]
          /\ UNCHANGED <<res, err>>
     ELSE /\ Return(p, <<>>, ErrTimeout)
          /\ UNCHANGED <<ready, claim>>
  /\ UNCHANGED <<qvars, nsema, nitems, ncalls,
                 op, num, tmo, chk, sema, di, woken, evars>>
  /\ UNCHANGED <<adds, given, ovars>>

\* The <-timeoutC branch without the Done() of its default case.
PollTimeoutNoDone(p) ==
  /\ pc[p] = "poll_timeout"
  /\ IF ready[sema[p]] = 0
     THEN /\ ready' = [ready EXCEPT ![sema[p]] = 1]
          /\ claim' = [claim EXCEPT ![sema[p]] = Append(@, "Poll")]
          /\ pc' = [pc EXCEPT ![p] = "poll_remove"]
          /\ UNCHANGED <<response, res, err>>
     ELSE /\ Return(p, <<>>, ErrTimeout)
          /\ UNCHANGED <<ready, response, claim>>
  /\ UNCHANGED <<qvars, nsema, nitems, ncalls,
                 op, num, tmo, chk, sema, di, woken, evars>>
  /\ UNCHANGED <<adds, dones, given, ovars>>

\* The <-timeoutC branch: select { case sema.ready <- true: default: }
PollTimeout(p) ==
  /\ pc[p] = "poll_timeout"
  /\ IF ready[sema[p]] = 0
     THEN /\ ready' = [ready EXCEPT ![sema[p]] = 1]
          /\ claim' = [claim EXCEPT ![sema[p]] = Append(@, "Poll")]
          /\ pc' = [pc EXCEPT ![p] = "poll_remove"]
          /\ UNCHANGED <<response, dones, res, err>>
     ELSE /\ response' = [response EXCEPT ![sema[p]] = @ - 1]
          /\ dones' = [dones EXCEPT ![sema[p]] = @ + 1]
          /\ Return(p, <<>>, ErrTimeout)
          /\ UNCHANGED <<ready, claim>>
  /\ UNCHANGED <<qvars, nsema, nitems, ncalls,
                 op, num, tmo, chk, sema, di, woken, evars>>
  /\ UNCHANGED <<adds, given, ovars>>

\* q.lock.Lock(); q.waiters.remove(sema); q.lock.Unlock(); return ErrTimeout
PollRemove(p) ==
  /\ pc[p] = "poll_remove"
  /\ lock = 0
  /\ waiters' = waitersRemove(waiters, sema[p])
  /\ Return(p, <<>>, ErrTimeout)
  /\ UNCHANGED <<items, disposed, lock, svars, nitems, ncalls,
                 op, num, tmo, chk, sema, di, woken, evars>>
  /\ UNCHANGED <<hvars, ovars>>

----------------------------------------------------------------------------
\* func (q *Queue[T]) Peek() (T, error)

PeekCall(p) ==
  /\ Enter(p, "Peek", "peek_lock")
  /\ UNCHANGED <<qvars, svars, nitems, num, tmo, chk, evars>>
  /\ UNCHANGED <<hvars, ovars>>

PeekLock(p) ==
  /\ pc[p] = "peek_lock"
  /\ lock = 0
  /\ IF disposed
     THEN Return(p, <<>>, ErrDisposed)
     ELSE LET g == itemsPeek(items)
          IN IF ~g.ok
             THEN Return(p, <<>>, ErrEmptyQueue)
             ELSE Return(p, <<g.item>>, ErrNone)
  /\ UNCHANGED <<qvars, svars, nitems, ncalls,
                 op, num, tmo, chk, sema, di, woken, evars>>
  /\ UNCHANGED <<hvars, ovars>>

----------------------------------------------------------------------------
\* func (q *Queue[T]) TakeUntil(checker func(item T) bool) ([]T, error)

\* checker == nil returns at once.
TakeUntilNil(p) ==
  /\ Enter(p, "TakeUntilNil", "idle")
  /\ UNCHANGED <<qvars, svars, nitems, num, tmo, chk, evars>>
  /\ UNCHANGED <<hvars, ovars>>

TakeUntilCall(p) ==
  \E c \in Checkers :
    /\ Enter(p, "TakeUntil", "take_lock")
    /\ chk' = [chk EXCEPT ![p] = c]
    /\ UNCHANGED <<qvars, svars, nitems, num, tmo, evars>>
  /\ UNCHANGED <<hvars, ovars>>

TakeUntilLock(p) ==
  /\ pc[p] = "take_lock"
  /\ lock = 0
  /\ IF disposed
     THEN /\ Return(p, <<>>, ErrDisposed)
          /\ UNCHANGED <<items, given>>
     ELSE LET g == itemsGetUntil(items, chk[p])
          IN /\ items' = g.rest
             /\ given' = Give(g.returnItems)
             /\ Return(p, g.returnItems, ErrNone)
  /\ chk' = [chk EXCEPT ![p] = {}]
  /\ UNCHANGED <<waiters, disposed, lock, svars, nitems, ncalls,
                 op, num, tmo, sema, di, woken, evars>>
  /\ UNCHANGED <<adds, dones, claim, ovars>>

----------------------------------------------------------------------------
\* func (q *Queue[T]) Dispose() []T

DisposeCall(p) ==
  /\ Enter(p, "Dispose", "disp_lock")
  /\ UNCHANGED <<qvars, svars, nitems, num, tmo, chk, evars>>
  /\ UNCHANGED <<hvars, ovars>>

\* q.lock.Lock(); q.disposed = true; the range over q.waiters starts
DisposeLock(p) ==
  /\ pc[p] = "disp_lock"
  /\ lock = 0
  /\ lock' = p
  /\ disposed' = TRUE
  /\ di' = [di EXCEPT ![p] = 1]
  /\ pc' = [pc EXCEPT ![p] = "disp_add"]
  /\ UNCHANGED <<items, waiters, svars, nitems, ncalls,
                 op, num, tmo, chk, sema, res, err, woken, evars>>
  /\ UNCHANGED <<hvars, ovars>>

\* Dispose without q.items = nil.
DisposeAddKeepItems(p) ==
  /\ pc[p] = "disp_add"
  /\ IF di[p] > Len(waiters)
     THEN /\ waiters' = <<>>
          /\ lock' = 0
          /\ given' = Give(items)
          /\ Return(p, IF op[p] = "Dispose" THEN items ELSE <<>>, ErrNone)
          /\ UNCHANGED <<items, response, sema, adds>>
     ELSE /\ sema' = [sema EXCEPT ![p] = waiters[di[p]]]
          /\ response' = [response EXCEPT ![waiters[di[p]]] = @ + 1]
          /\ adds' = [adds EXCEPT ![waiters[di[p]]] = @ + 1]
          /\ pc' = [pc EXCEPT ![p] = "disp_send"]
          /\ UNCHANGED <<items, waiters, lock, res, err, given>>
  /\ UNCHANGED <<disposed, ready, nsema, nitems, ncalls,
                 op, num, tmo, chk, di, woken, evars>>
  /\ UNCHANGED <<dones, claim, ovars>>

\* One round of the range: waiter.response.Add(1).  After the last round:
\* q.items = nil; q.waiters = nil; the deferred Unlock; return the items.
\* ExecuteInParallel drops what its q.Dispose() returns.
DisposeAdd(p) ==
  /\ pc[p] = "disp_add"
  /\ IF di[p] > Len(waiters)
     THEN /\ items' = <<>>
          /\ waiters' = <<>>
          /\ lock' = 0
          /\ given' = Give(items)
          /\ Return(p, IF op[p] = "Dispose" THEN items ELSE <<>>, ErrNone)
          /\ UNCHANGED <<response, sema, adds>>
     ELSE /\ sema' = [sema EXCEPT ![p] = waiters[di[p]]]
          /\ response' = [response EXCEPT ![waiters[di[p]]] = @ + 1]
          /\ adds' = [adds EXCEPT ![waiters[di[p]]] = @ + 1]
          /\ pc' = [pc EXCEPT ![p] = "disp_send"]
          /\ UNCHANGED <<items, waiters, lock, res, err, given>>
  /\ UNCHANGED <<disposed, ready, nsema, nitems, ncalls,
                 op, num, tmo, chk, di, woken, evars>>
  /\ UNCHANGED <<dones, claim, ovars>>

\* Dispose going over the waiters without sending on waiter.ready.
DisposeSendNever(p) ==
  /\ pc[p] = "disp_send"
  /\ di' = [di EXCEPT ![p] = @ + 1]
  /\ pc' = [pc EXCEPT ![p] = "disp_add"]
  /\ UNCHANGED <<qvars, svars, nitems, ncalls,
                 op, num, tmo, chk, sema, res, err, woken, evars>>
  /\ UNCHANGED <<hvars, ovars>>

\* select { case waiter.ready <- true: default: }
DisposeSend(p) ==
  /\ pc[p] = "disp_send"
  /\ ready' = [ready EXCEPT ![sema[p]] = IF @ = 0 THEN 1 ELSE @]
  /\ claim' = [claim EXCEPT ![sema[p]] =
                 IF ready[sema[p]] = 0 THEN Append(@, "Dispose") ELSE @]
  /\ di' = [di EXCEPT ![p] = @ + 1]
  /\ pc' = [pc EXCEPT ![p] = "disp_add"]
  /\ UNCHANGED <<qvars, response, nsema, nitems, ncalls,
                 op, num, tmo, chk, sema, res, err, woken, evars>>
  /\ UNCHANGED <<adds, dones, given, ovars>>

----------------------------------------------------------------------------
\* func ExecuteInParallel(q *Queue[interface{}], fn func(interface{}))

EipCall(p) ==
  /\ Enter(p, "ExecuteInParallel", "eip_lock")
  /\ UNCHANGED <<qvars, svars, nitems, num, tmo, chk, evars>>
  /\ UNCHANGED <<hvars, ovars>>

\* q.lock.Lock(); todo, done := len(q.items), -1; return on todo == 0;
\* numCPU goroutines are started, numCPU being what the host gives.
EipLock(p) ==
  /\ pc[p] = "eip_lock"
  /\ lock = 0
  /\ lock' = p
  /\ todo' = Len(items)
  /\ done' = -1
  /\ applied' = [i \in 1..Len(items) |-> 0]
  /\ IF Len(items) = 0
     THEN /\ Return(p, <<>>, ErrNone)
          /\ UNCHANGED <<wg, wpc>>
     ELSE /\ \E numCPU \in 1..MaxWorkers :
               /\ wg' = numCPU
               /\ wpc' = [w \in Workers |->
                            IF w <= numCPU THEN "claim" ELSE "off"]
          /\ pc' = [pc EXCEPT ![p] = "eip_wait"]
          /\ UNCHANGED <<res, err>>
  /\ UNCHANGED <<items, waiters, disposed, svars, nitems, ncalls,
                 op, num, tmo, chk, sema, di, woken, widx>>
  /\ UNCHANGED <<hvars, ovars>>

\* The increment of done as a load and a store: two workers can load the
\* same value.
WorkerClaimRacy(w) ==
  /\ wpc[w] = "claim"
  /\ \E d \in {done, done + 1} :
       /\ d >= 0
       /\ done' = done + 1
       /\ IF d >= todo
          THEN /\ wg' = wg - 1
               /\ wpc' = [wpc EXCEPT ![w] = "exit"]
               /\ UNCHANGED widx
          ELSE /\ widx' = [widx EXCEPT ![w] = d]
               /\ wpc' = [wpc EXCEPT ![w] = "apply"]
               /\ UNCHANGED wg
  /\ UNCHANGED <<qvars, svars, nitems, ncalls, pvars, todo, applied>>
  /\ UNCHANGED <<hvars, ovars>>

\* index := atomic.AddInt64(&done, 1); past the end: wg.Done() and break
WorkerClaim(w) ==
  /\ wpc[w] = "claim"
  /\ done' = done + 1
  /\ IF done + 1 >= todo
     THEN /\ wg' = wg - 1
          /\ wpc' = [wpc EXCEPT ![w] = "exit"]
          /\ UNCHANGED widx
     ELSE /\ widx' = [widx EXCEPT ![w] = done + 1]
          /\ wpc' = [wpc EXCEPT ![w] = "apply"]
          /\ UNCHANGED wg
  /\ UNCHANGED <<qvars, svars, nitems, ncalls, pvars, todo, applied>>
  /\ UNCHANGED <<hvars, ovars>>

\* fn(items[index]); items[index] = 0
WorkerApply(w) ==
  /\ wpc[w] = "apply"
  /\ applied' = [applied EXCEPT ![widx[w] + 1] = @ + 1]
  /\ items' = [items EXCEPT ![widx[w] + 1] = 0]
  /\ wpc' = [wpc EXCEPT ![w] = "claim"]
  /\ UNCHANGED <<waiters, disposed, lock, svars, nitems, ncalls, pvars,
                 todo, done, wg, widx>>
  /\ UNCHANGED <<hvars, ovars>>

\* wg.Wait(); q.lock.Unlock(); then q.Dispose()
EipWait(p) ==
  /\ pc[p] = "eip_wait"
  /\ wg = 0
  /\ lock' = 0
  /\ wpc' = [w \in Workers |-> "off"]
  /\ widx' = [w \in Workers |-> 0]
  /\ pc' = [pc EXCEPT ![p] = "disp_lock"]
  /\ UNCHANGED <<items, waiters, disposed, svars, nitems, ncalls,
                 op, num, tmo, chk, sema, di, res, err, woken,
                 todo, done, wg, applied>>
  /\ UNCHANGED <<hvars, ovars>>

----------------------------------------------------------------------------
\* The calls a goroutine can make, and the steps of the calls under way.
Call(p) ==
  \/ PutCall(p)
  \/ PollCall(p)
  \/ PeekCall(p)
  \/ TakeUntilNil(p)
  \/ TakeUntilCall(p)
  \/ DisposeCall(p)
  \/ EipCall(p)

PutStep(p) == PutLock(p) \/ PutGet(p) \/ PutSend(p) \/ PutWait(p)

PollStep(p) ==
  \/ PollLock(p)
  \/ PollReady(p)
  \/ PollTimer(p)
  \/ PollSignal(p)
  \/ PollDone(p)
  \/ PollTimeout(p)
  \/ PollRemove(p)

DisposeStep(p) == DisposeLock(p) \/ DisposeAdd(p) \/ DisposeSend(p)

EipStep(p) == EipLock(p) \/ EipWait(p)

Step(p) ==
  \/ PutStep(p)
  \/ PollStep(p)
  \/ PeekLock(p)
  \/ TakeUntilLock(p)
  \/ DisposeStep(p)
  \/ EipStep(p)

WorkerStep(w) == WorkerClaim(w) \/ WorkerApply(w)

Next ==
  \/ \E p \in Procs : Call(p)
  \/ \E p \in Procs : Step(p)
  \/ \E w \in Workers : WorkerStep(w)

Spec == Init /\ [][Next]_vars

\* The queue's blocking protocol alone: Put, Poll/Get and Dispose, with every
\* goroutine that can take a step eventually taking one (the Go scheduler
\* is preemptive, a sync.Mutex is handed to its waiters, and the timer of a
\* Poll with a timeout fires).
LiveCall(p) == PutCall(p) \/ PollCall(p) \/ DisposeCall(p)

LiveStep(p) == PutStep(p) \/ PollStep(p) \/ DisposeStep(p)

LiveNext ==
  \/ \E p \in Procs : LiveCall(p)
  \/ \E p \in Procs : LiveStep(p)

LiveSpec ==
  Init /\ [][LiveNext]_vars /\ \A p \in Procs : WF_vars(LiveStep(p))

----------------------------------------------------------------------------
\* The queue without ExecuteInParallel: Put, Poll/Get, Peek, TakeUntil and
\* Dispose, whose results are all that leaves the buffer.
CoreCall(p) ==
  \/ PutCall(p)
  \/ PollCall(p)
  \/ PeekCall(p)
  \/ TakeUntilNil(p)
  \/ TakeUntilCall(p)
  \/ DisposeCall(p)

CoreStep(p) ==
  \/ PutStep(p)
  \/ PollStep(p)
  \/ PeekLock(p)
  \/ TakeUntilLock(p)
  \/ DisposeStep(p)

CoreNext ==
  \/ \E p \in Procs : CoreCall(p)
  \/ \E p \in Procs : CoreStep(p)

CoreSpec == Init /\ [][CoreNext]_vars

----------------------------------------------------------------------------
\* package set: type Set[T comparable] struct { items; lock; flattened }
\* Every method holds set.lock from its first statement to its return, so
\* each call is one step.

\* delete(set.items, item) for each item of the list
RECURSIVE setDelete(_, _, _)
setDelete(m, its, i) ==
  IF i > Len(its) THEN m ELSE setDelete(m \ {its[i]}, its, i + 1)

\* The orders in which a range over the map can yield its keys.
rangeOrders(m) ==
  {f \in [1..Cardinality(m) -> m] :
     \A i, j \in 1..Cardinality(m) : i # j => f[i] # f[j]}

\* func (set *Set[T]) Add(items ...T)
SetAdd ==
  \E its \in ArgLists :
    /\ flattened' = [nil |-> TRUE, list |-> <<>>]
    /\ setItems' = setInsert(setItems, its, 1)
    /\ setOp' = "Add"
    /\ UNCHANGED <<setRet, futvars, queuevars>>

\* func (set *Set[T]) Remove(items ...T)
SetRemove ==
  \E its \in ArgLists :
    /\ flattened' = [nil |-> TRUE, list |-> <<>>]
    /\ setItems' = setDelete(setItems, its, 1)
    /\ setOp' = "Remove"
    /\ UNCHANGED <<setRet, futvars, queuevars>>

\* func (set *Set[T]) Flatten() []T
SetFlatten ==
  /\ IF ~flattened.nil
     THEN /\ setRet' = flattened.list
          /\ UNCHANGED flattened
     ELSE \E f \in rangeOrders(setItems) :
            /\ flattened' = [nil |-> FALSE, list |-> f]
            /\ setRet' = f
  /\ setOp' = "Flatten"
  /\ UNCHANGED <<setItems, futvars, queuevars>>

\* func (set *Set[T]) Clear()
SetClear ==
  /\ setItems' = {}
  /\ setOp' = "Clear"
  /\ UNCHANGED <<flattened, setRet, futvars, queuevars>>

\* func (set *Set[T]) Dispose(): every key is deleted, the elements of
\* flattened are zeroed, and flattened[:0] of a nil slice is nil.
SetDispose ==
  /\ setItems' = setDelete(setItems, CHOOSE f \in rangeOrders(setItems) : TRUE, 1)
  /\ flattened' = [flattened EXCEPT !.list = <<>>]
  /\ setOp' = "Dispose"
  /\ UNCHANGED <<setRet, futvars, queuevars>>

SetNext ==
  \/ SetAdd
  \/ SetRemove
  \/ SetFlatten
  \/ SetClear
  \/ SetDispose

\* A set made by New from any list of items, and the calls made on it.
SetInit == QueueNew /\ NewSelectable /\ \E its \in ArgLists : SetNew(its)

SetSpec == SetInit /\ [][SetNext]_vars

----------------------------------------------------------------------------
\* package futures: type Selectable[T any] struct { m; val; err; wait; filled }
\* A goroutine's call runs as the steps between its atomic loads of f.filled,
\* its sections under f.m and its receive on the channel.

\* A goroutine enters a call: the previous call's results are dropped.
\* Goroutines are interchangeable, so they are numbered in the order of
\* their first calls.
FutEnter(c, name, at) ==
  /\ fpc[c] = "idle"
  /\ IF c = 1 THEN TRUE ELSE fop[c - 1] # "none"
  /\ fcalls < MaxFutCalls
  /\ fcalls' = fcalls + 1
  /\ fpc' = [fpc EXCEPT ![c] = at]
  /\ fop' = [fop EXCEPT ![c] = name]
  /\ fch' = [fch EXCEPT ![c] = "nil"]
  /\ fret' = [fret EXCEPT ![c] = [v |-> 0, e |-> ErrNone]]

\* func (f *Selectable[T]) Fill(v T, e error) error
FillCall(c) ==
  \E v \in Vals, e \in Errs :
    /\ FutEnter(c, "Fill", "fill_lock")
    /\ farg' = [farg EXCEPT ![c] = [v |-> v, e |-> e, late |-> filled = 1]]
    /\ UNCHANGED <<val, futErr, wait, filled, chanClosed, first,
                   setvars, queuevars>>

\* func (f *Selectable[T]) SetValue(v T) error: Fill(v, nil)
SetValueCall(c) ==
  \E v \in Vals :
    /\ FutEnter(c, "SetValue", "fill_lock")
    /\ farg' = [farg EXCEPT ![c] =
                  [v |-> v, e |-> ErrNone, late |-> filled = 1]]
    /\ UNCHANGED <<val, futErr, wait, filled, chanClosed, first,
                   setvars, queuevars>>

\* func (f *Selectable[T]) SetError(e error): Fill(zero, e)
SetErrorCall(c) ==
  \E e \in Errs :
    /\ FutEnter(c, "SetError", "fill_lock")
    /\ farg' = [farg EXCEPT ![c] = [v |-> 0, e |-> e, late |-> filled = 1]]
    /\ UNCHANGED <<val, futErr, wait, filled, chanClosed, first,
                   setvars, queuevars>>

\* func (f *Selectable[T]) Cancel(): SetError(ErrFutureCanceled)
CancelCall(c) ==
  /\ FutEnter(c, "Cancel", "fill_lock")
  /\ farg' = [farg EXCEPT ![c] =
                [v |-> 0, e |-> ErrFutureCanceled, late |-> filled = 1]]
  /\ UNCHANGED <<val, futErr, wait, filled, chanClosed, first,
                 setvars, queuevars>>

\* History: the first (v, e) to get into Fill's section under f.m.
FirstFill(c) ==
  IF first.set THEN first
  ELSE [set |-> TRUE, v |-> farg[c].v, e |-> farg[c].e]

\* Fill without the check of f.filled.
FillLockAlways(c) ==
  /\ fpc[c] = "fill_lock"
  /\ val' = farg[c].v
  /\ futErr' = farg[c].e
  /\ filled' = 1
  /\ wait' = "closed"
  /\ chanClosed' = (chanClosed \/ wait = "chan")
  /\ first' = FirstFill(c)
  /\ fpc' = [fpc EXCEPT ![c] = "fill_ret"]
  /\ UNCHANGED <<fop, farg, fch, fret, fcalls, setvars, queuevars>>

\* Fill from f.m.Lock() to f.m.Unlock()
FillLock(c) ==
  /\ fpc[c] = "fill_lock"
  /\ IF filled = 0
     THEN /\ val' = farg[c].v
          /\ futErr' = farg[c].e
          /\ filled' = 1
          /\ wait' = "closed"
          /\ chanClosed' = (chanClosed \/ wait = "chan")
     ELSE UNCHANGED <<val, futErr, filled, wait, chanClosed>>
  /\ first' = FirstFill(c)
  /\ fpc' = [fpc EXCEPT ![c] = "fill_ret"]
  /\ UNCHANGED <<fop, farg, fch, fret, fcalls, setvars, queuevars>>

\* return f.err; SetError and Cancel drop it
FillReturn(c) ==
  /\ fpc[c] = "fill_ret"
  /\ fret' = [fret EXCEPT ![c] =
                [v |-> 0,
                 e |-> IF fop[c] \in {"Fill", "SetValue"}
                       THEN futErr ELSE ErrNone]]
  /\ fpc' = [fpc EXCEPT ![c] = "idle"]
  /\ UNCHANGED <<val, futErr, wait, filled, chanClosed, first,
                 fop, farg, fch, fcalls, setvars, queuevars>>

\* func (f *Selectable[T]) wchan() <-chan struct{}
wchan(c) ==
  /\ wait' = IF wait = "nil" THEN "chan" ELSE wait
  /\ fch' = [fch EXCEPT ![c] = IF wait = "nil" THEN "chan" ELSE wait]

\* func (f *Selectable[T]) WaitChan() <-chan struct{}
WaitChanCall(c) ==
  /\ FutEnter(c, "WaitChan", "wc_load")
  /\ UNCHANGED <<val, futErr, wait, filled, chanClosed, first, farg,
                 setvars, queuevars>>

\* if atomic.LoadUint32(&f.filled) == 1 { return closed }
WaitChanLoad(c) ==
  /\ fpc[c] = "wc_load"
  /\ IF filled = 1
     THEN /\ fch' = [fch EXCEPT ![c] = "closed"]
          /\ fpc' = [fpc EXCEPT ![c] = "idle"]
     ELSE /\ fpc' = [fpc EXCEPT ![c] = "wc_wchan"]
          /\ UNCHANGED fch
  /\ UNCHANGED <<val, futErr, wait, filled, chanClosed, first,
                 fop, farg, fret, fcalls, setvars, queuevars>>

\* return f.wchan()
WaitChanWchan(c) ==
  /\ fpc[c] = "wc_wchan"
  /\ wchan(c)
  /\ fpc' = [fpc EXCEPT ![c] = "idle"]
  /\ UNCHANGED <<val, futErr, filled, chanClosed, first,
                 fop, farg, fret, fcalls, setvars, queuevars>>

\* func (f *Selectable[T]) GetResult() (T, error)
GetResultCall(c) ==
  /\ FutEnter(c, "GetResult", "get_load")
  /\ UNCHANGED <<val, futErr, wait, filled, chanClosed, first, farg,
                 setvars, queuevars>>

\* if atomic.LoadUint32(&f.filled) == 0
GetResultLoad(c) ==
  /\ fpc[c] = "get_load"
  /\ fpc' = [fpc EXCEPT ![c] = IF filled = 0 THEN "get_wchan" ELSE "get_ret"]
  /\ UNCHANGED <<val, futErr, wait, filled, chanClosed, first,
                 fop, farg, fch, fret, fcalls, setvars, queuevars>>

\* the call of f.wchan() in <-f.wchan()
GetResultWchan(c) ==
  /\ fpc[c] = "get_wchan"
  /\ wchan(c)
  /\ fpc' = [fpc EXCEPT ![c] = "get_recv"]
  /\ UNCHANGED <<val, futErr, filled, chanClosed, first,
                 fop, farg, fret, fcalls, setvars, queuevars>>

\* the receive of <-f.wchan(): it returns once the channel is closed
GetResultRecv(c) ==
  /\ fpc[c] = "get_recv"
  /\ fch[c] = "closed" \/ (fch[c] = "chan" /\ chanClosed)
  /\ fpc' = [fpc EXCEPT ![c] = "get_ret"]
  /\ UNCHANGED <<val, futErr, wait, filled, chanClosed, first,
                 fop, farg, fch, fret, fcalls, setvars, queuevars>>

\* return f.val, f.err
GetResultReturn(c) ==
  /\ fpc[c] = "get_ret"
  /\ fret' = [fret EXCEPT ![c] = [v |-> val, e |-> futErr]]
  /\ fpc' = [fpc EXCEPT ![c] = "idle"]
  /\ UNCHANGED <<val, futErr, wait, filled, chanClosed, first,
                 fop, farg, fch, fcalls, setvars, queuevars>>

FutCall(c) ==
  \/ FillCall(c)
  \/ SetValueCall(c)
  \/ SetErrorCall(c)
  \/ CancelCall(c)
  \/ WaitChanCall(c)
  \/ GetResultCall(c)

FutStep(c) ==
  \/ FillLock(c)
  \/ FillReturn(c)
  \/ WaitChanLoad(c)
  \/ WaitChanWchan(c)
  \/ GetResultLoad(c)
  \/ GetResultWchan(c)
  \/ GetResultRecv(c)
  \/ GetResultReturn(c)

FutNext ==
  \/ \E c \in Callers : FutCall(c)
  \/ \E c \in Callers : FutStep(c)

\* One future and the goroutines that call into it; a goroutine that can
\* take a step of its call eventually takes one (the scheduler is
\* preemptive and f.m is never held across a wait).
FutureSpec ==
  Init /\ [][FutNext]_vars /\ \A c \in Callers : WF_vars(FutStep(c))

----------------------------------------------------------------------------
Min(a, b) == IF a < b THEN a ELSE b

\* The buffer holds its items in the order of their insertion.
InInsertionOrder(its) ==
  \A i, j \in 1..Len(its) :
    (i < j /\ its[i] # 0 /\ its[j] # 0) => its[i] < its[j]

\* Process p takes q.lock in Poll and finds the queue live and not empty.
PollOnItems(p) ==
  /\ pc[p] = "poll_lock"
  /\ pc'[p] # "poll_lock"
  /\ ~disposed
  /\ Len(items) > 0

\* C1: FIFO order.  The buffer always holds the items of the Puts so far in
\* insertion order, and a Poll(N), N >= 1, that finds it non-empty returns
\* at once, with no error, its first min(N, len) items in that order, and
\* leaves the others in the buffer in their order.
C1_FifoOrder ==
  [][/\ InInsertionOrder(items')
     /\ \A p \in Procs :
          PollOnItems(p) =>
            LET k == Min(num[p], Len(items))
            IN /\ pc'[p] = "idle"
               /\ err'[p] = ErrNone
               /\ res'[p] = SubSeq(items, 1, k)
               /\ items' = SubSeq(items, k + 1, Len(items))
               /\ waiters' = waiters]_vars

\* A Poll(2) returned the two items of one Put and left the item of a later
\* Put in the buffer.
C1_Witness ==
  \E p \in Procs :
    /\ pc[p] = "idle" /\ op[p] = "Poll" /\ ~woken[p]
    /\ err[p] = ErrNone
    /\ res[p] = <<1, 2>>
    /\ items = <<3>>

----------------------------------------------------------------------------
\* The receive of a hand-off: p took items in the <-sema.ready branch.
Served(p) == woken[p]

\* C6: FIFO fairness among waiters.  The registry holds the tokens in the
\* order of their registration; whenever a waiter has been handed items, no
\* waiter registered before it is still waiting in its select; and of two
\* waiters that were handed items, the one registered first got the items
\* nearer the front of the buffer.
C6_WaiterFifo ==
  /\ \A i, j \in 1..Len(waiters) : i < j => waiters[i] < waiters[j]
  /\ \A p, q \in Procs :
       (Served(p) /\ pc[q] = "poll_select") => sema[q] > sema[p]
  /\ \A p, q \in Procs :
       (Served(p) /\ Served(q) /\ sema[p] < sema[q]) =>
         \A i \in 1..Len(res[p]), j \in 1..Len(res[q]) :
           res[p][i] < res[q][j]

\* Two Gets waited, one Put of two items served both: the first to register
\* got the first item.
C6_Witness ==
  \E p, q \in Procs :
    /\ pc[p] = "idle" /\ pc[q] = "idle"
    /\ Served(p) /\ Served(q)
    /\ sema[p] = 1 /\ sema[q] = 2
    /\ res[p] = <<1>> /\ res[q] = <<2>>

----------------------------------------------------------------------------
\* Process p takes q.lock in Dispose.
DisposeLocks(p) == pc[p] = "disp_lock" /\ pc'[p] # "disp_lock"

\* Process p is in the range over q.waiters and stays in it.
DisposeRanges(p) ==
  pc[p] \in {"disp_add", "disp_send"} /\ pc'[p] # "idle"

\* Process p returns from a Dispose it called itself.
DisposeReturns(p) ==
  pc[p] = "disp_add" /\ pc'[p] = "idle" /\ op[p] = "Dispose"

\* C7: Dispose is one-shot.  A Dispose sets disposed, returns the buffer as
\* it is when it takes the lock, and leaves buffer and registry empty; a
\* Dispose that finds the queue disposed finds both empty already, so it
\* returns nothing and changes nothing.
C7_DisposeOnce ==
  [][\A p \in Procs :
       /\ DisposeLocks(p) =>
            /\ disposed'
            /\ UNCHANGED <<items, waiters>>
            /\ disposed => (items = <<>> /\ waiters = <<>>)
       /\ DisposeRanges(p) => UNCHANGED <<items, waiters, disposed>>
       /\ DisposeReturns(p) =>
            /\ res'[p] = items
            /\ err'[p] = ErrNone
            /\ items' = <<>>
            /\ waiters' = <<>>
            /\ disposed']_vars

\* A Dispose returned the two buffered items, another one returned nothing.
C7_Witness ==
  \E p, q \in Procs :
    /\ p # q
    /\ pc[p] = "idle" /\ op[p] = "Dispose" /\ res[p] = <<1, 2>>
    /\ pc[q] = "idle" /\ op[q] = "Dispose" /\ res[q] = <<>>
    /\ disposed /\ items = <<>> /\ waiters = <<>>

----------------------------------------------------------------------------
\* Process p takes q.lock in a Put, Poll, Peek or TakeUntil.
TakesLock(p) ==
  /\ pc[p] \in {"put_lock", "poll_lock", "peek_lock", "take_lock"}
  /\ pc'[p] # pc[p]

\* C5: post-disposal inertness.  disposed never goes back to false.  A Put
\* of items, a Poll with N >= 1, a Peek or a TakeUntil with a predicate that
\* gets the lock of a disposed queue returns ErrDisposed in that step,
\* without waiting and leaving buffer, registry and disposed as they are (a
\* Put inserts nothing).  A Put of no items, a Poll with N < 1 and a
\* TakeUntil with a nil predicate return nothing and no error, and no call
\* changes the queue before it has the lock.
C5_PostDisposal ==
  [][/\ disposed => disposed'
     /\ \A p \in Procs :
          /\ (disposed /\ TakesLock(p)) =>
               /\ pc'[p] = "idle"
               /\ err'[p] = ErrDisposed
               /\ res'[p] = <<>>
               /\ UNCHANGED <<items, waiters, disposed, lock, nitems>>
          /\ (pc'[p] = "idle" /\ (\/ op'[p] = "TakeUntilNil"
                                  \/ op'[p] \in {"Put", "Poll"} /\ num'[p] = 0))
               => (res'[p] = <<>> /\ err'[p] = ErrNone)
     /\ ncalls' # ncalls => UNCHANGED <<items, waiters, disposed, lock>>]_vars

\* After a Dispose, a Put of items and a Poll were both turned down.
C5_Witness ==
  \E p, q \in Procs :
    /\ disposed /\ lock = 0
    /\ pc[p] = "idle" /\ op[p] = "Put" /\ num[p] >= 1
    /\ err[p] = ErrDisposed
    /\ pc[q] = "idle" /\ op[q] = "Poll" /\ num[q] >= 1
    /\ err[q] = ErrDisposed /\ res[q] = <<>>

----------------------------------------------------------------------------
\* Process p takes q.lock in ExecuteInParallel.
EipLocks(p) == pc[p] = "eip_lock" /\ pc'[p] # "eip_lock"

\* C8: ExecuteInParallel on an empty queue that is not disposed is a no-op:
\* it returns and leaves buffer, registry and disposed as they were and the
\* lock free.
C8_EmptyNoop ==
  [][\A p \in Procs :
       (EipLocks(p) /\ Len(items) = 0 /\ ~disposed) =>
         /\ pc'[p] = "idle"
         /\ UNCHANGED <<items, waiters, disposed>>
         /\ lock' = 0]_vars

\* What does hold there: the call returns with the queue unchanged, and
\* with q.lock still locked.
C8_EmptyKeepsLock ==
  [][\A p \in Procs :
       (EipLocks(p) /\ Len(items) = 0) =>
         /\ pc'[p] = "idle"
         /\ UNCHANGED <<items, waiters, disposed>>
         /\ lock' = p]_vars

----------------------------------------------------------------------------
\* wg.Wait() returns in process p.
EipWaitReturns(p) == pc[p] = "eip_wait" /\ pc'[p] # "eip_wait"

\* Process p returns from ExecuteInParallel on a queue that held items.
EipReturns(p) ==
  pc[p] = "disp_add" /\ pc'[p] = "idle" /\ op[p] = "ExecuteInParallel"

\* C9: on k >= 1 buffered items fn is never called twice on an item, wg.Wait
\* returns only when fn has been called once on each of the k items and
\* every worker is through, and the call returns with the queue disposed.
C9_EachItemOnce ==
  [][/\ \A i \in 1..Len(applied') : applied'[i] <= 1
     /\ \A p \in Procs :
          /\ EipWaitReturns(p) =>
               /\ todo >= 1
               /\ Len(applied) = todo
               /\ \A i \in 1..todo : applied[i] = 1
               /\ \A w \in Workers : wpc[w] \in {"off", "exit"}
          /\ EipReturns(p) => disposed']_vars

\* Two workers are through with a snapshot of two items.
C9_Witness ==
  /\ \E p \in Procs : pc[p] = "eip_wait"
  /\ wg = 0
  /\ todo = 2
  /\ applied = <<1, 1>>
  /\ \A w \in 1..2 : wpc[w] = "exit"

----------------------------------------------------------------------------
\* Process p takes q.lock in TakeUntil and finds the queue live.
TakeUntilOn(p) ==
  pc[p] = "take_lock" /\ pc'[p] # "take_lock" /\ ~disposed

\* The length of the longest prefix of its whose items all satisfy checker.
PrefixLen(its, checker) ==
  CHOOSE k \in 0..Len(its) :
    /\ \A i \in 1..k : its[i] \in checker
    /\ k = Len(its) \/ its[k + 1] \notin checker

\* C10: TakeUntil with a predicate, on a queue that is not disposed, returns
\* in the step in which it has the lock, with no error, the longest prefix
\* of the buffer whose items all satisfy the predicate, and leaves the rest
\* of the buffer, from the first failing item on; on an empty buffer that is
\* an empty result.
C10_TakeUntilPrefix ==
  [][\A p \in Procs :
       TakeUntilOn(p) =>
         LET k == PrefixLen(items, chk[p])
         IN /\ pc'[p] = "idle"
            /\ err'[p] = ErrNone
            /\ res'[p] = SubSeq(items, 1, k)
            /\ items' = SubSeq(items, k + 1, Len(items))
            /\ Len(items) = 0 => res'[p] = <<>>
            /\ UNCHANGED <<waiters, disposed, lock>>]_vars

\* On <<1, 2, 3>> and a predicate that fails on 2 only, TakeUntil took 1 and
\* left 2 and 3.
C10_Witness ==
  \E p \in Procs :
    /\ pc[p] = "idle" /\ op[p] = "TakeUntil"
    /\ err[p] = ErrNone
    /\ res[p] = <<1>>
    /\ items = <<2, 3>>

----------------------------------------------------------------------------
\* Process p waits in its select and its token is the oldest registered.
WaitsAtHead(p) ==
  pc[p] = "poll_select" /\ Len(waiters) > 0 /\ waiters[1] = sema[p]

\* A Put of at least one item is under way and has not taken q.lock yet.
PutPending == \E q \in Procs : pc[q] = "put_lock"

\* The ways a Poll that had to wait can end.
PollOutcome(p) ==
  /\ pc[p] = "idle"
  /\ op[p] = "Poll"
  /\ \/ err[p] = ErrNone /\ res[p] # <<>> /\ Len(res[p]) <= num[p]
     \/ err[p] = ErrTimeout /\ res[p] = <<>> /\ tmo[p]
     \/ err[p] = ErrDisposed /\ res[p] = <<>> /\ disposed

\* C2: no lost wakeup.  A Poll that waits on the empty queue, with a Put of
\* at least one item under way, returns: with items and no error, or with
\* ErrTimeout if it has a timeout (or with ErrDisposed if a Dispose came in
\* between).  The items are the first min(N, len) of the buffer the Put has
\* filled.  A Poll without a timeout never returns ErrTimeout, and every Put
\* under way returns.
C2_NoLostWakeup ==
  /\ \A p \in Procs : (WaitsAtHead(p) /\ PutPending) ~> PollOutcome(p)
  /\ [][\A p \in Procs :
          (pc[p] = "poll_signal" /\ pc'[p] # "poll_signal" /\ ~disposed) =>
            LET k == Min(num[p], Len(items))
            IN /\ Len(items) > 0
               /\ res'[p] = SubSeq(items, 1, k)
               /\ items' = SubSeq(items, k + 1, Len(items))]_vars
  /\ \A q \in Procs :
       (pc[q] \in {"put_lock", "put_get", "put_send", "put_wait"})
         ~> (pc[q] = "idle")
  /\ [](\A p \in Procs :
          (pc[p] = "idle" /\ op[p] = "Poll" /\ err[p] = ErrTimeout) => tmo[p])

\* A Get that waited was woken by a Put and returned its item.
C2_Witness ==
  \E p \in Procs :
    /\ pc[p] = "idle" /\ op[p] = "Poll" /\ ~tmo[p]
    /\ Served(p)
    /\ err[p] = ErrNone
    /\ res[p] = <<1>>

----------------------------------------------------------------------------
\* Process p leaves the <-timeoutC branch's inner select.
TimeoutClaims(p) == pc[p] = "poll_timeout" /\ pc'[p] # "poll_timeout"

\* C3: timeout exclusivity.  A Poll never returns both items and an error;
\* the timeout branch takes nothing from the buffer and ends in ErrTimeout
\* with no items; and a Put that waits for the ack of a token always gets
\* past response.Wait().
C3_TimeoutExclusive ==
  /\ [](\A p \in Procs :
          (pc[p] = "idle" /\ op[p] = "Poll") =>
            (res[p] = <<>> \/ err[p] = ErrNone))
  /\ [][\A p \in Procs :
          TimeoutClaims(p) =>
            /\ items' = items
            /\ res'[p] = <<>>
            /\ pc'[p] = "idle" => err'[p] = ErrTimeout]_vars
  /\ \A q \in Procs : (pc[q] = "put_wait") ~> (pc[q] # "put_wait")

\* A Put sent on the token of a Poll and waits for its ack, the Poll took
\* its timeout branch, called Done and returned ErrTimeout; the items are in
\* the buffer.
C3_Witness ==
  \E p, q \in Procs :
    /\ pc[q] = "put_wait" /\ sema[q] = sema[p]
    /\ pc[p] = "idle" /\ op[p] = "Poll"
    /\ err[p] = ErrTimeout /\ res[p] = <<>>
    /\ response[sema[p]] = 0
    /\ items # <<>>

----------------------------------------------------------------------------
\* C4: disposal releases all waiters.  A Dispose under way gets the lock;
\* from then on every caller that waits in Poll with no timeout, whether
\* its select has started or not, returns ErrDisposed and nothing else.
C4_DisposeReleases ==
  /\ \A d \in Procs : (pc[d] = "disp_lock") ~> disposed
  /\ \A p \in Procs :
       (disposed /\ pc[p] = "poll_select" /\ ~tmo[p])
         ~> (pc[p] = "idle" /\ err[p] = ErrDisposed /\ res[p] = <<>>)
  /\ [][\A p \in Procs :
          (disposed /\ pc[p] = "poll_signal" /\ pc'[p] # "poll_signal") =>
            (pc'[p] = "idle" /\ err'[p] = ErrDisposed /\ items' = items)]_vars

\* Two Gets that had registered their tokens both returned ErrDisposed.
C4_Witness ==
  \E p, q \in Procs :
    /\ p # q
    /\ disposed
    /\ pc[p] = "idle" /\ op[p] = "Poll" /\ ~tmo[p] /\ sema[p] # 0
    /\ err[p] = ErrDisposed
    /\ pc[q] = "idle" /\ op[q] = "Poll" /\ ~tmo[q] /\ sema[q] # 0
    /\ err[q] = ErrDisposed

----------------------------------------------------------------------------
\* Process p takes q.lock in Peek.
PeekLocks(p) == pc[p] = "peek_lock" /\ pc'[p] # "peek_lock"

\* C11: Peek returns in the step in which it has the lock, with no wait of
\* its own: ErrDisposed on a disposed queue, ErrEmptyQueue on an empty buffer
\* that is not disposed, and else the front item of the buffer with no
\* error; neither the call nor that step changes buffer, registry, disposed
\* or the lock.
C11_PeekFrame ==
  [][\A p \in Procs :
       /\ PeekLocks(p) =>
            /\ pc'[p] = "idle"
            /\ IF disposed
               THEN err'[p] = ErrDisposed /\ res'[p] = <<>>
               ELSE IF Len(items) = 0
               THEN err'[p] = ErrEmptyQueue /\ res'[p] = <<>>
               ELSE err'[p] = ErrNone /\ res'[p] = <<items[1]>>
            /\ UNCHANGED <<items, waiters, disposed, lock>>
       /\ (pc[p] = "idle" /\ pc'[p] = "peek_lock") =>
            UNCHANGED <<items, waiters, disposed, lock>>]_vars

\* A Peek on a buffer of two items returned the first and left both.
C11_Witness ==
  \E p \in Procs :
    /\ pc[p] = "idle" /\ op[p] = "Peek"
    /\ err[p] = ErrNone
    /\ res[p] = <<1>>
    /\ items = <<1, 2>>

----------------------------------------------------------------------------
\* The Poll that created token s has registered it and has not returned.
TokenLive(s) ==
  \E p \in Procs :
    /\ pc[p] \in {"poll_select", "poll_signal", "poll_done",
                  "poll_timeout", "poll_remove"}
    /\ sema[p] = s

\* Token s was created and the Poll that created it has returned.
TokenReturned(s) == s <= nsema /\ ~TokenLive(s)

InRegistry(s) == \E i \in 1..Len(waiters) : waiters[i] = s

\* A token is in the registry at most once, and at most one send on its
\* ready channel ever succeeds: a Put's, a Dispose's, or the one of its own
\* Poll's timeout branch.
ClaimedOnce ==
  /\ \A i, j \in 1..Len(waiters) : i # j => waiters[i] # waiters[j]
  /\ \A s \in Semas : Len(claim[s]) <= 1

\* C15 as stated: a token is in the registry at most once, it is claimed by
\* a signal or by its own timeout cleanup and never by both, and once the
\* Poll that created it has returned it is not in the registry.
C15_TokenExclusive ==
  /\ ClaimedOnce
  /\ \A s \in Semas : TokenReturned(s) => ~InRegistry(s)

\* C15, amended: a token is in the registry at most once, it is claimed by
\* a signal or by its own timeout cleanup and never by both, and once the
\* Poll that created it has returned it is not in the registry, except while
\* a Dispose is still inside its critical section: it is never there when
\* q.lock is free.
C15_TokenClaimedOnce ==
  /\ ClaimedOnce
  /\ \A s \in Semas :
       (TokenReturned(s) /\ InRegistry(s)) =>
         /\ disposed
         /\ \E d \in Procs : lock = d /\ pc[d] \in {"disp_add", "disp_send"}

\* One Poll timed out, claimed its own token, removed it and returned
\* ErrTimeout; the token of another one was claimed by a Put.
C15_Witness ==
  \E p, q \in Procs :
    /\ pc[p] = "idle" /\ op[p] = "Poll" /\ err[p] = ErrTimeout
    /\ sema[p] # 0
    /\ claim[sema[p]] = <<"Poll">>
    /\ ~InRegistry(sema[p])
    /\ op[q] = "Poll" /\ sema[q] # 0
    /\ claim[sema[q]] = <<"Put">>

----------------------------------------------------------------------------
\* Goroutine p is in code that reads or changes q.items and takes no lock
\* before it does: Put's loop after the append (a Put that waits for an ack
\* is in it again once the ack is there), the <-sema.ready branch of Poll
\* on a queue that is not disposed, and Dispose's critical section.
UsesBuffer(p) ==
  \/ pc[p] \in {"put_get", "put_send", "disp_add", "disp_send"}
  \/ pc[p] = "put_wait" /\ response[sema[p]] = 0
  \/ pc[p] = "poll_signal" /\ ~disposed

BufferUsers == {p \in Procs : UsesBuffer(p)}

\* The goroutines of ExecuteInParallel that are about to call fn on an item
\* of the buffer and to overwrite it.
WorkerUsers == {w \in Workers : wpc[w] = "apply"}

\* Put q has sent on the token of a waiter and waits for its ack.
HandOffOpen(q) == pc[q] = "put_wait"

\* Waiter p was woken by the Put that holds q.lock and waits for p's ack.
HandedTo(p) ==
  /\ pc[p] = "poll_signal"
  /\ \E q \in Procs :
       /\ lock = q
       /\ HandOffOpen(q)
       /\ sema[q] = sema[p]
       /\ response[sema[p]] = 1

\* The goroutines inside a critical section hold q.lock, every goroutine
\* that uses the buffer holds q.lock or was handed it by a Put, and at most
\* one hand-off is open.
LockDiscipline ==
  /\ \A p \in Procs :
       pc[p] \in {"put_get", "put_send", "put_wait", "disp_add",
                  "disp_send", "eip_wait"} => lock = p
  /\ Cardinality(BufferUsers) <= 1
  /\ \A p \in BufferUsers : lock = p \/ HandedTo(p)
  /\ Cardinality({q \in Procs : HandOffOpen(q)}) <= 1
  /\ Cardinality({p \in Procs : pc[p] \in {"poll_signal", "poll_done"}
                                 /\ claim[sema[p]] = <<"Put">>}) <= 1

\* C16 as stated: at most one thread at a time reads or changes the buffer,
\* and only while q.lock is held by itself or, for a woken waiter, by the
\* Put that signalled it and waits for its ack; at most one hand-off is
\* open.  A worker goroutine of ExecuteInParallel is neither.
C16_BufferExclusive ==
  /\ LockDiscipline
  /\ WorkerUsers = {}

\* C16, amended: the same of every goroutine that calls into the queue; the
\* worker goroutines of ExecuteInParallel use the buffer only while their
\* caller holds q.lock and waits for them in wg.Wait, no other goroutine
\* uses the buffer then, and no two of them are at the same item.
C16_BufferUnderLock ==
  /\ LockDiscipline
  /\ WorkerUsers # {} =>
       /\ BufferUsers = {}
       /\ \E e \in Procs : lock = e /\ pc[e] = "eip_wait"
       /\ \A v, w \in WorkerUsers : v # w => widx[v] # widx[w]

\* A hand-off is open: a Put holds q.lock and waits for the ack of the
\* waiter it woke, which is about to take items from the buffer.
C16_Witness ==
  \E p, q \in Procs :
    /\ lock = q /\ HandOffOpen(q)
    /\ HandedTo(p)
    /\ ~disposed
    /\ BufferUsers = {p}

----------------------------------------------------------------------------
\* C17: hand-off always finds items.  A Poll that received a signal on a
\* queue that is not disposed finds the buffer non-empty; a Poll that took
\* its items in that branch holds at least one and at most N of them, with
\* no error; and a Put is about to take or to signal a waiter only while
\* the buffer is non-empty.
C17_HandOffFindsItems ==
  /\ \A p \in Procs :
       (pc[p] = "poll_signal" /\ ~disposed) => Len(items) >= 1
  /\ \A p \in Procs :
       (woken[p] /\ pc[p] \in {"poll_done", "idle"}) =>
         /\ op[p] = "Poll"
         /\ err[p] = ErrNone
         /\ Len(res[p]) >= 1
         /\ Len(res[p]) <= num[p]
  /\ \A q \in Procs :
       pc[q] \in {"put_get", "put_send"} => Len(items) >= 1

\* Two Gets waited and a Put of one item came: the first got the item, the
\* Put returned on the empty buffer, the second still waits.
C17_Witness ==
  \E p, q, r \in Procs :
    /\ pc[p] = "idle" /\ woken[p] /\ res[p] = <<1>>
    /\ pc[r] = "idle" /\ op[r] = "Put" /\ err[r] = ErrNone
    /\ pc[q] = "poll_select"
    /\ waiters = <<sema[q]>>
    /\ items = <<>>
    /\ lock = 0

----------------------------------------------------------------------------
\* How many times item i is in the buffer.
InBuffer(i) == Cardinality({k \in 1..Len(items) : items[k] = i})

\* How many of the results the calls hold now item i is in (what Peek
\* returns is a copy of an item it leaves in the buffer).
InResults(i) ==
  Cardinality({x \in Procs \X (1..MaxItems) :
                 /\ op[x[1]] # "Peek"
                 /\ x[2] <= Len(res[x[1]])
                 /\ res[x[1]][x[2]] = i})

\* C18: item conservation under Put, Get/Poll, TakeUntil and Dispose.  Every
\* item a Put has appended is either once in the buffer and in no result, or
\* not in the buffer and has been returned in exactly one result; no item
\* is in two of the results the calls hold; and a Poll that timed out while
\* a Put's signal for it was in flight holds no item.
C18_ItemConservation ==
  /\ \A i \in 1..MaxItems :
       /\ i <= nitems => InBuffer(i) + given[i] = 1
       /\ i > nitems => InBuffer(i) + given[i] = 0
       /\ InResults(i) <= given[i]
  /\ \A p \in Procs :
       (pc[p] = "idle" /\ op[p] = "Poll" /\ err[p] = ErrTimeout) =>
         res[p] = <<>>

\* A Poll timed out while the signal of a Put of one item was in flight for
\* it; the item stayed in the buffer and a later Poll returned it.
C18_Witness ==
  \E p, q \in Procs :
    /\ pc[p] = "idle" /\ op[p] = "Poll" /\ err[p] = ErrTimeout
    /\ sema[p] # 0
    /\ claim[sema[p]] = <<"Put">>
    /\ pc[q] = "idle" /\ op[q] = "Poll" /\ err[q] = ErrNone
    /\ res[q] = <<1>>
    /\ given[1] = 1
    /\ items = <<>>

----------------------------------------------------------------------------
\* No call is inside a critical section of q.lock: the lock is free, or it
\* was left locked by a call that has returned.
NoLockHolder == lock = 0 \/ pc[lock] = "idle"

\* C19: no consumer is left waiting while items are buffered.  Whenever no
\* call holds q.lock and the queue is not disposed, the buffer is empty or
\* the registry is empty.
C19_NoWaiterOnItems ==
  (NoLockHolder /\ ~disposed) => (Len(items) = 0 \/ Len(waiters) = 0)

\* A Put of two items found a waiter that asked for one: it handed it the
\* first item and returned, and the second item is in the buffer with no
\* waiter left.
C19_Witness ==
  \E p, q \in Procs :
    /\ lock = 0 /\ ~disposed
    /\ pc[q] = "idle" /\ op[q] = "Put" /\ num[q] = 2
    /\ pc[p] = "idle" /\ woken[p] /\ res[p] = <<1>>
    /\ items = <<2>>
    /\ waiters = <<>>

----------------------------------------------------------------------------
\* C20: the ack counter of a token never goes below zero.  Each token gets
\* at most one Add(1) and at most one Done(), there are never more Done()
\* than Add(1) calls on it, and the counter is what they leave.
C20_AckCounter ==
  \A s \in Semas :
    /\ response[s] >= 0
    /\ adds[s] <= 1
    /\ dones[s] <= 1
    /\ dones[s] <= adds[s]
    /\ response[s] = adds[s] - dones[s]

\* A Dispose went over two tokens.  The Poll of one was in its timeout
\* branch, found the channel full, called Done() and returned ErrTimeout;
\* the Poll of the other received the signal and returned ErrDisposed
\* without a Done().
C20_Witness ==
  \E p, q \in Procs :
    /\ pc[p] = "idle" /\ op[p] = "Poll" /\ err[p] = ErrTimeout
    /\ sema[p] # 0
    /\ claim[sema[p]] = <<"Dispose">>
    /\ adds[sema[p]] = 1 /\ dones[sema[p]] = 1 /\ response[sema[p]] = 0
    /\ pc[q] = "idle" /\ op[q] = "Poll" /\ err[q] = ErrDisposed
    /\ sema[q] # 0
    /\ adds[sema[q]] = 1 /\ dones[sema[q]] = 0 /\ response[sema[q]] = 1

----------------------------------------------------------------------------
\* The list holds every member of the set m once and nothing else.
HoldsExactly(list, m) ==
  /\ Len(list) = Cardinality(m)
  /\ {list[i] : i \in 1..Len(list)} = m

\* C12: what Flatten returns holds exactly the members the set has then,
\* each once, whatever calls of Add, Remove, Clear, Dispose and Flatten
\* came before.
C12_FlattenExact ==
  setOp = "Flatten" => HoldsExactly(setRet, setItems)

----------------------------------------------------------------------------
\* Caller c is inside GetResult.
InGetResult(c) == fop[c] = "GetResult" /\ fpc[c] # "idle"

\* Caller c has returned from GetResult.
GotResult(c) == fop[c] = "GetResult" /\ fpc[c] = "idle"

\* C13: the future is fulfilled at most once and wakes all waiters.  Once
\* it is filled it holds the (v, e) of the first Fill to get into the
\* section under f.m, and no later step changes val, err or filled; every
\* GetResult that has returned returned that pair; and every GetResult under
\* way on a filled future, whether it started before the Fill or after it,
\* returns.
C13_FilledOnce ==
  /\ [](filled = 1 =>
          (first.set /\ val = first.v /\ futErr = first.e))
  /\ [][filled = 1 => UNCHANGED <<val, futErr, filled>>]_vars
  /\ [](\A c \in Callers :
          GotResult(c) =>
            /\ first.set
            /\ fret[c] = [v |-> first.v, e |-> first.e])
  /\ \A c \in Callers : (InGetResult(c) /\ filled = 1) ~> GotResult(c)

\* A GetResult that waited on the channel wchan made returned the pair of
\* the first Fill, after a second Fill with another pair had come.
C13_Witness ==
  \E c, d \in Callers :
    /\ GotResult(c) /\ fch[c] = "chan"
    /\ first = [set |-> TRUE, v |-> 1, e |-> ErrNone]
    /\ fret[c] = [v |-> 1, e |-> ErrNone]
    /\ fop[d] = "Fill" /\ fpc[d] = "idle" /\ farg[d].late
    /\ farg[d].v = 0 /\ farg[d].e = "error"

----------------------------------------------------------------------------
\* Caller c has returned from a Fill or SetValue that it called on a future
\* that was fulfilled already.
LateFillReturned(c) ==
  /\ fpc[c] = "idle"
  /\ fop[c] \in {"Fill", "SetValue"}
  /\ farg[c].late

\* C14: a Fill (or SetValue) called on a future that is fulfilled already
\* returns an error that is not nil.
C14_LateFillErrors ==
  \A c \in Callers : LateFillReturned(c) => fret[c].e # ErrNone

\* What does hold: every Fill returns the error of the first Fill, nil when
\* that one set a value.
C14_FillReturnsFirstErr ==
  \A c \in Callers :
    (fpc[c] = "idle" /\ fop[c] \in {"Fill", "SetValue"}) =>
      (first.set /\ fret[c].e = first.e)

====
